---- MODULE Spec2Model ----
(***************************************************************************)
(* A model of PgQueuer's JobBuffer (src/PgQueuer/buffers.py): producers     *)
(* calling add_job, the background monitor task, external callers of        *)
(* flush_jobs, the code that clears the alive event, and the clock.         *)
(* asyncio tasks are cooperative: everything between two awaits that        *)
(* really suspend is one atomic step.  The suspension points are the wait   *)
(* for the lock, asyncio.sleep and the awaited flush callback (the sink).   *)
(* Every producer task makes one add_job call and every flusher task one    *)
(* direct flush_jobs call; tasks are interchangeable, so they call in the   *)
(* order of their numbers.                                                  *)
(***************************************************************************)
EXTENDS Integers, Sequences, FiniteSets, TLC

\* ---- bounds of the model ----
NumAdds == 3
NumFlushes == 1
MaxTime == 4

\* ---- constructor arguments (buffers.py lines 43-44) ----
max_size == 2
timeout == 2

Monitor == 0
Producers == 1..NumAdds
Flushers == (NumAdds + 1)..(NumAdds + NumFlushes)
Procs == {Monitor} \cup Producers \cup Flushers

VARIABLES
    events,           \* self.events: the buffered events, oldest first
    last_event_time,  \* self.last_event_time
    alive,            \* self.alive.is_set()
    locked,           \* self.lock.locked()
    waiters,          \* the FIFO queue of tasks waiting for self.lock
    now,              \* the reading of _perf_counter_dt()
    wake_at,          \* the time at which the monitor's asyncio.sleep ends
    pc,               \* where each task is
    batch,            \* per task: the events handed to the sink it awaits
    adding,           \* per task: the event and clock reading of its add_job in progress
    n_accepted,       \* history: number of events appended so far
    delivered,        \* history: the events of batches whose sink call returned
    mon_since_add,    \* history: monitor sink invocations since the last append
    mon_after_stop,   \* history: monitor sink invocations started with alive cleared
    last_fail         \* history: batch of the last failed sink call, <<>> after a success

vars == <<events, last_event_time, alive, locked, waiters, now, wake_at, pc,
          batch, adding, n_accepted, delivered, mon_since_add, mon_after_stop,
          last_fail>>

hist == <<n_accepted, delivered, mon_since_add, mon_after_stop, last_fail>>

\* ---- pure helpers ----
IsPrefix(s, t) == Len(s) <= Len(t) /\ SubSeq(t, 1, Len(s)) = s

Range(s) == {s[i] : i \in 1..Len(s)}

\* the events lo+1, ..., hi in the order of their appends
Run(lo, hi) == [i \in 1..(hi - lo) |-> lo + i]

\* a buffer that put new events in front
PrependEvent(ev, e) == <<e>> \o ev

\* self.events.append((job, status))
AppendEvent(ev, e) == Append(ev, e)

\* a size check that is off by one
SizeExceeded(ev) == Len(ev) > max_size

\* len(self.events) >= self.max_size
SizeReached(ev) == Len(ev) >= max_size

\* a flush_jobs without the emptiness test
AnyEvents(ev) == TRUE

\* `if self.events:` in flush_jobs
NonEmpty(ev) == ev # <<>>

\* a flush_jobs that forgot to clear
RetainEvents(ev) == ev

\* self.events.clear(), reached only when the awaited callback returned
ClearEvents(ev) == <<>>

\* a failure path that empties the list
DropEvents(ev) == <<>>

\* the callback raised: flush_jobs is left before clear()
KeepEvents(ev) == ev

\* the subtraction the other way round
TimedOutSwapped(t, last) == last - t >= timeout

\* _perf_counter_dt() - self.last_event_time >= self.timeout
TimedOut(t, last) == t - last >= timeout

\* a loop that never looks at the flag
WhileTrue(alv) == TRUE

\* `while self.alive.is_set()`
WhileAlive(alv) == alv

\* asyncio.Lock.acquire returns at once only when the lock is free and nobody waits
LockFree == ~locked /\ waiters = <<>>

\* a queued task is resumed when the lock was released and it is first in line
LockGranted(p) == ~locked /\ waiters # <<>> /\ Head(waiters) = p

\* the tasks of a kind call in the order of their numbers
Turn(p, kind) == \A q \in kind : q < p => pc[q] # "idle"

NoAdd == [id |-> 0, at |-> 0]

Init ==
    /\ events = <<>>
    /\ last_event_time = 0
    /\ alive = TRUE
    /\ locked = FALSE
    /\ waiters = <<>>
    /\ now = 0
    /\ wake_at = 0
    /\ pc = [p \in Procs |-> IF p = Monitor THEN "start" ELSE "idle"]
    /\ batch = [p \in Procs |-> <<>>]
    /\ adding = [p \in Procs |-> NoAdd]
    /\ n_accepted = 0
    /\ delivered = {}
    /\ mon_since_add = 0
    /\ mon_after_stop = 0
    /\ last_fail = <<>>

\* ---- add_job ----

\* the body of `async with self.lock:` in add_job, up to the awaited callback
AddBody(p) ==
    LET ev == AppendEvent(events, n_accepted + 1) IN
    /\ n_accepted' = n_accepted + 1
    /\ last_event_time' = now
    /\ mon_since_add' = 0
    /\ events' = ev
    /\ IF SizeReached(ev) /\ NonEmpty(ev)
         THEN /\ locked' = TRUE
              /\ pc' = [pc EXCEPT ![p] = "sink"]
              /\ batch' = [batch EXCEPT ![p] = ev]
              /\ adding' = [adding EXCEPT ![p] = [id |-> n_accepted + 1, at |-> now]]
         ELSE /\ locked' = FALSE
              /\ pc' = [pc EXCEPT ![p] = "returned"]
              /\ UNCHANGED <<batch, adding>>
    /\ UNCHANGED <<alive, now, wake_at, delivered, mon_after_stop, last_fail>>

\* the lock is taken or others wait: add_job joins the queue
AddJobQueue(p) ==
    /\ waiters' = Append(waiters, p)
    /\ pc' = [pc EXCEPT ![p] = "lock_wait"]
    /\ UNCHANGED <<events, last_event_time, alive, locked, now, wake_at,
                   batch, adding, hist>>

\* an add_job that rejects events once alive is cleared
AddJobCallWhileAlive(p) ==
    /\ alive
    /\ pc[p] = "idle"
    /\ Turn(p, Producers)
    /\ IF LockFree THEN AddBody(p) /\ UNCHANGED waiters ELSE AddJobQueue(p)

\* a producer calls add_job: it enters at once or queues for the lock
AddJobCall(p) ==
    /\ pc[p] = "idle"
    /\ Turn(p, Producers)
    /\ IF LockFree THEN AddBody(p) /\ UNCHANGED waiters ELSE AddJobQueue(p)

\* a queued add_job gets the lock
AddJobAcquire(p) ==
    /\ pc[p] = "lock_wait"
    /\ LockGranted(p)
    /\ waiters' = Tail(waiters)
    /\ AddBody(p)

\* the callback awaited by add_job returned: clear, leave the lock, return
AddSinkOk(p) ==
    /\ pc[p] = "sink_ok"
    /\ events' = ClearEvents(events)
    /\ delivered' = delivered \cup Range(batch[p])
    /\ last_fail' = <<>>
    /\ locked' = FALSE
    /\ pc' = [pc EXCEPT ![p] = "returned"]
    /\ batch' = [batch EXCEPT ![p] = <<>>]
    /\ adding' = [adding EXCEPT ![p] = NoAdd]
    /\ UNCHANGED <<last_event_time, alive, waiters, now, wake_at, n_accepted,
                   mon_since_add, mon_after_stop>>

\* an add_job whose exception leaves without releasing the lock
AddSinkFailKeepLock(p) ==
    /\ pc[p] = "sink_err"
    /\ events' = KeepEvents(events)
    /\ last_fail' = batch[p]
    /\ pc' = [pc EXCEPT ![p] = "raised"]
    /\ batch' = [batch EXCEPT ![p] = <<>>]
    /\ adding' = [adding EXCEPT ![p] = NoAdd]
    /\ UNCHANGED <<last_event_time, alive, locked, waiters, now, wake_at, n_accepted,
                   delivered, mon_since_add, mon_after_stop>>

\* the callback awaited by add_job raised: the exception leaves flush_jobs,
\* the lock and add_job
AddSinkFail(p) ==
    /\ pc[p] = "sink_err"
    /\ events' = KeepEvents(events)
    /\ last_fail' = batch[p]
    /\ locked' = FALSE
    /\ pc' = [pc EXCEPT ![p] = "raised"]
    /\ batch' = [batch EXCEPT ![p] = <<>>]
    /\ adding' = [adding EXCEPT ![p] = NoAdd]
    /\ UNCHANGED <<last_event_time, alive, waiters, now, wake_at, n_accepted,
                   delivered, mon_since_add, mon_after_stop>>

\* ---- flush_jobs called directly (it takes no lock) ----

\* an external caller runs flush_jobs up to the awaited callback, or through
\* to its return when there is nothing to flush
FlushJobsCall(f) ==
    /\ pc[f] = "idle"
    /\ Turn(f, Flushers)
    /\ IF NonEmpty(events)
         THEN /\ pc' = [pc EXCEPT ![f] = "sink"]
              /\ batch' = [batch EXCEPT ![f] = events]
         ELSE /\ pc' = [pc EXCEPT ![f] = "returned"]
              /\ UNCHANGED batch
    /\ UNCHANGED <<events, last_event_time, alive, locked, waiters, now, wake_at,
                   adding, hist>>

\* a flush_jobs that stamps last_event_time when it clears
FlushSinkOkStamped(f) ==
    /\ pc[f] = "sink_ok"
    /\ events' = ClearEvents(events)
    /\ delivered' = delivered \cup Range(batch[f])
    /\ last_fail' = <<>>
    /\ last_event_time' = now
    /\ pc' = [pc EXCEPT ![f] = "returned"]
    /\ batch' = [batch EXCEPT ![f] = <<>>]
    /\ UNCHANGED <<alive, locked, waiters, now, wake_at, adding,
                   n_accepted, mon_since_add, mon_after_stop>>

\* the callback awaited by a direct flush_jobs returned: clear, return
FlushSinkOk(f) ==
    /\ pc[f] = "sink_ok"
    /\ events' = ClearEvents(events)
    /\ delivered' = delivered \cup Range(batch[f])
    /\ last_fail' = <<>>
    /\ pc' = [pc EXCEPT ![f] = "returned"]
    /\ batch' = [batch EXCEPT ![f] = <<>>]
    /\ UNCHANGED <<last_event_time, alive, locked, waiters, now, wake_at, adding,
                   n_accepted, mon_since_add, mon_after_stop>>

\* the callback awaited by a direct flush_jobs raised
FlushSinkFail(f) ==
    /\ pc[f] = "sink_err"
    /\ events' = KeepEvents(events)
    /\ last_fail' = batch[f]
    /\ pc' = [pc EXCEPT ![f] = "raised"]
    /\ batch' = [batch EXCEPT ![f] = <<>>]
    /\ UNCHANGED <<last_event_time, alive, locked, waiters, now, wake_at, adding,
                   n_accepted, delivered, mon_since_add, mon_after_stop>>

\* ---- monitor ----

\* the head of the while loop, up to the await of asyncio.sleep
MonitorLoop ==
    IF WhileAlive(alive)
      THEN /\ pc' = [pc EXCEPT ![Monitor] = "sleep"]
           /\ wake_at' = now + timeout
      ELSE /\ pc' = [pc EXCEPT ![Monitor] = "stopped"]
           /\ UNCHANGED wake_at

\* the monitor task starts running
MonitorStart ==
    /\ pc[Monitor] = "start"
    /\ MonitorLoop
    /\ UNCHANGED <<events, last_event_time, alive, locked, waiters, now,
                   batch, adding, hist>>

\* the body of `async with self.lock:` in monitor, up to the awaited callback
\* or, when nothing is flushed, on to the next sleep
MonitorBody ==
    IF TimedOut(now, last_event_time) /\ NonEmpty(events)
      THEN /\ locked' = TRUE
           /\ pc' = [pc EXCEPT ![Monitor] = "sink"]
           /\ batch' = [batch EXCEPT ![Monitor] = events]
           /\ mon_since_add' = mon_since_add + 1
           /\ mon_after_stop' = IF alive THEN mon_after_stop ELSE mon_after_stop + 1
           /\ UNCHANGED <<events, last_event_time, alive, now, wake_at, adding,
                          n_accepted, delivered, last_fail>>
      ELSE /\ locked' = FALSE
           /\ MonitorLoop
           /\ UNCHANGED <<events, last_event_time, alive, now, batch, adding, hist>>

\* asyncio.sleep is over: the monitor enters the lock at once or queues for it
MonitorWake ==
    /\ pc[Monitor] = "sleep"
    /\ now >= wake_at
    /\ IF LockFree
         THEN MonitorBody /\ UNCHANGED waiters
         ELSE /\ waiters' = Append(waiters, Monitor)
              /\ pc' = [pc EXCEPT ![Monitor] = "lock_wait"]
              /\ UNCHANGED <<events, last_event_time, alive, locked, now, wake_at,
                             batch, adding, hist>>

\* the queued monitor gets the lock
MonitorAcquire ==
    /\ pc[Monitor] = "lock_wait"
    /\ LockGranted(Monitor)
    /\ waiters' = Tail(waiters)
    /\ MonitorBody

\* the callback awaited by the monitor returned: clear, leave the lock, loop
MonitorSinkOk ==
    /\ pc[Monitor] = "sink_ok"
    /\ events' = ClearEvents(events)
    /\ delivered' = delivered \cup Range(batch[Monitor])
    /\ last_fail' = <<>>
    /\ locked' = FALSE
    /\ batch' = [batch EXCEPT ![Monitor] = <<>>]
    /\ MonitorLoop
    /\ UNCHANGED <<last_event_time, alive, waiters, now, adding, n_accepted,
                   mon_since_add, mon_after_stop>>

\* the callback awaited by the monitor raised: the exception leaves the lock
\* and the coroutine, whatever alive is
MonitorSinkFail ==
    /\ pc[Monitor] = "sink_err"
    /\ events' = KeepEvents(events)
    /\ last_fail' = batch[Monitor]
    /\ locked' = FALSE
    /\ pc' = [pc EXCEPT ![Monitor] = "raised"]
    /\ batch' = [batch EXCEPT ![Monitor] = <<>>]
    /\ UNCHANGED <<last_event_time, alive, waiters, now, wake_at, adding, n_accepted,
                   delivered, mon_since_add, mon_after_stop>>

\* ---- environment ----

\* the awaited flush callback finishes normally
SinkReturns(p) ==
    /\ pc[p] = "sink"
    /\ pc' = [pc EXCEPT ![p] = "sink_ok"]
    /\ UNCHANGED <<events, last_event_time, alive, locked, waiters, now, wake_at,
                   batch, adding, hist>>

\* the awaited flush callback finishes with an exception
SinkRaises(p) ==
    /\ pc[p] = "sink"
    /\ pc' = [pc EXCEPT ![p] = "sink_err"]
    /\ UNCHANGED <<events, last_event_time, alive, locked, waiters, now, wake_at,
                   batch, adding, hist>>

\* external code calls self.alive.clear()
Stop ==
    /\ alive
    /\ alive' = FALSE
    /\ UNCHANGED <<events, last_event_time, locked, waiters, now, wake_at, pc,
                   batch, adding, hist>>

\* the clock advances
Tick ==
    /\ now < MaxTime
    /\ now' = now + 1
    /\ UNCHANGED <<events, last_event_time, alive, locked, waiters, wake_at, pc,
                   batch, adding, hist>>

\* the clock advances without end: once the reading reaches MaxTime the
\* stored instants are shifted down instead, which keeps every difference
\* below MaxTime exact (MaxTime >= timeout, so a clamped instant is timed out
\* or due either way)
TickForever ==
    LET Down(t) == IF t > 0 THEN t - 1 ELSE 0 IN
    /\ IF now < MaxTime
         THEN /\ now' = now + 1
              /\ UNCHANGED <<last_event_time, wake_at, adding>>
         ELSE /\ now' = now
              /\ last_event_time' = Down(last_event_time)
              /\ wake_at' = Down(wake_at)
              /\ adding' = [p \in Procs |-> [adding[p] EXCEPT !.at = Down(@)]]
    /\ UNCHANGED <<events, alive, locked, waiters, pc, batch, hist>>

\* producers and the monitor, the scheduling model of the buffer
NextProducersMonitor ==
    \/ \E p \in Producers : AddJobCall(p)
    \/ \E p \in Producers : AddJobAcquire(p)
    \/ \E p \in Producers : AddSinkOk(p)
    \/ \E p \in Producers : AddSinkFail(p)
    \/ MonitorStart
    \/ MonitorWake
    \/ MonitorAcquire
    \/ MonitorSinkOk
    \/ MonitorSinkFail
    \/ \E p \in Procs : SinkReturns(p)
    \/ \E p \in Procs : SinkRaises(p)
    \/ Stop
    \/ Tick

\* the same with external code calling flush_jobs directly
Next ==
    \/ NextProducersMonitor
    \/ \E f \in Flushers : FlushJobsCall(f)
    \/ \E f \in Flushers : FlushSinkOk(f)
    \/ \E f \in Flushers : FlushSinkFail(f)

Spec == Init /\ [][Next]_vars

SpecProducersMonitor == Init /\ [][NextProducersMonitor]_vars

\* the monitor keeps running and the sink always returns
NextRunning ==
    \/ \E p \in Producers : AddJobCall(p)
    \/ \E p \in Producers : AddJobAcquire(p)
    \/ \E p \in Producers : AddSinkOk(p)
    \/ MonitorStart
    \/ MonitorWake
    \/ MonitorAcquire
    \/ MonitorSinkOk
    \/ \E p \in Procs : SinkReturns(p)
    \/ TickForever

\* every task that can run is eventually run, the sink eventually returns and
\* the clock keeps advancing; producers need not call add_job
FairRunning ==
    /\ \A p \in Producers : WF_vars(AddJobAcquire(p)) /\ WF_vars(AddSinkOk(p))
    /\ WF_vars(MonitorStart)
    /\ WF_vars(MonitorWake)
    /\ WF_vars(MonitorAcquire)
    /\ WF_vars(MonitorSinkOk)
    /\ \A p \in Procs : WF_vars(SinkReturns(p))
    /\ WF_vars(TickForever)

SpecRunning == Init /\ [][NextRunning]_vars /\ FairRunning

\* producers and the monitor under an event loop that runs every ready task,
\* with a sink that may raise and a clock that never stops
NextScheduled ==
    \/ \E p \in Producers : AddJobCall(p)
    \/ \E p \in Producers : AddJobAcquire(p)
    \/ \E p \in Producers : AddSinkOk(p)
    \/ \E p \in Producers : AddSinkFail(p)
    \/ MonitorStart
    \/ MonitorWake
    \/ MonitorAcquire
    \/ MonitorSinkOk
    \/ MonitorSinkFail
    \/ \E p \in Procs : SinkReturns(p)
    \/ \E p \in Procs : SinkRaises(p)
    \/ Stop
    \/ TickForever

\* every task that can run is eventually run, every sink call eventually
\* returns or raises and the clock keeps advancing; producers need not call
\* add_job and nobody need clear alive
FairScheduled ==
    /\ \A p \in Producers :
          /\ WF_vars(AddJobAcquire(p))
          /\ WF_vars(AddSinkOk(p))
          /\ WF_vars(AddSinkFail(p))
    /\ WF_vars(MonitorStart)
    /\ WF_vars(MonitorWake)
    /\ WF_vars(MonitorAcquire)
    /\ WF_vars(MonitorSinkOk)
    /\ WF_vars(MonitorSinkFail)
    /\ \A p \in Procs : WF_vars(SinkReturns(p) \/ SinkRaises(p))
    /\ WF_vars(TickForever)

SpecScheduled == Init /\ [][NextScheduled]_vars /\ FairScheduled

\* the whole program with a sink that raises on every call
NextSinkFails ==
    \/ \E p \in Producers : AddJobCall(p)
    \/ \E p \in Producers : AddJobAcquire(p)
    \/ \E p \in Producers : AddSinkFail(p)
    \/ \E f \in Flushers : FlushJobsCall(f)
    \/ \E f \in Flushers : FlushSinkFail(f)
    \/ MonitorStart
    \/ MonitorWake
    \/ MonitorAcquire
    \/ MonitorSinkFail
    \/ \E p \in Procs : SinkRaises(p)
    \/ Stop
    \/ Tick

SpecSinkFails == Init /\ [][NextSinkFails]_vars

\* how far the clock of the timed model runs
Horizon == MaxTime + timeout

\* the clock advances only when no task can run: the monitor sleeps and is not
\* yet due, and no add_job is under way
TickTimed ==
    /\ now < Horizon
    /\ pc[Monitor] = "sleep"
    /\ now < wake_at
    /\ \A p \in Producers : pc[p] \in {"idle", "returned"}
    /\ now' = now + 1
    /\ UNCHANGED <<events, last_event_time, alive, locked, waiters, wake_at, pc,
                   batch, adding, hist>>

\* producers and a running monitor with a sink that returns at once and
\* tasks that take no time: every step but the tick happens within an instant
NextTimed ==
    \/ \E p \in Producers : AddJobCall(p)
    \/ \E p \in Producers : AddJobAcquire(p)
    \/ \E p \in Producers : AddSinkOk(p)
    \/ MonitorStart
    \/ MonitorWake
    \/ MonitorAcquire
    \/ MonitorSinkOk
    \/ \E p \in Procs : SinkReturns(p)
    \/ TickTimed

SpecTimed == Init /\ [][NextTimed]_vars

\* ---- steps seen from outside ----

\* this step is an add_job appending its event
Appended == n_accepted' = n_accepted + 1

\* this step starts a sink invocation by p
Invoked(p) == pc[p] # "sink" /\ pc'[p] = "sink"

\* this step is p resuming from a sink call that returned
Resumed(p) == pc[p] = "sink_ok" /\ pc'[p] # "sink_ok"

\* this step is p resuming from a sink call that raised
Failed(p) == pc[p] = "sink_err" /\ pc'[p] # "sink_err"

\* this step is a check of the monitor under the lock
MonitorChecked ==
    /\ pc[Monitor] \in {"sleep", "lock_wait"}
    /\ \/ pc'[Monitor] \notin {"sleep", "lock_wait"}
       \/ pc'[Monitor] = "sleep" /\ wake_at' # wake_at

\* this step is a direct call of flush_jobs
FlushCalled == \E f \in Flushers : pc[f] = "idle" /\ pc'[f] # "idle"

\* p has invoked the sink and not yet resumed from it
InSink(p) == pc[p] \in {"sink", "sink_ok", "sink_err"}

\* ---- claims ----

\* C1: with producers and the monitor only, every batch handed to the sink
\* is the buffer as it stands, and the successfully flushed batches followed
\* by the buffer are the accepted events 1, 2, ... in the order of their
\* appends: nothing is dropped or reordered, and no event is in two
\* successful batches.
C1_OrderPreserved ==
    /\ [](/\ delivered = 1..Cardinality(delivered)
          /\ events = Run(Cardinality(delivered), n_accepted)
          /\ \A p \in Procs : InSink(p) => batch[p] = events)
    /\ [][\A p \in Procs :
            Resumed(p) => /\ Range(batch[p]) \cap delivered = {}
                          /\ delivered' = delivered \cup Range(batch[p])]_vars

\* after an earlier successful flush a producer is awaiting the sink with a
\* full batch while another task is queued on the lock
C1_Witness ==
    \E p \in Producers :
        /\ pc[p] = "sink"
        /\ Len(batch[p]) >= max_size
        /\ waiters # <<>>
        /\ delivered # {}

\* C2 as stated: whenever add_job has invoked the sink, the batch has exactly
\* max_size events.
C2_BatchExactlyMaxSize ==
    \A p \in Producers : pc[p] = "sink" => Len(batch[p]) = max_size

\* C2 amended: an add_job invokes the sink exactly when the count after its
\* append is at least max_size; the batch is the whole buffer in insertion
\* order, of exactly max_size events unless a failed flush left events in
\* place; the buffer is empty right after add_job resumes from a sink call
\* that returned.
C2_SizeTrigger ==
    [][ /\ Appended =>
            /\ events' = Append(events, n_accepted')
            /\ (\E p \in Procs : Invoked(p)) <=> (Len(events') >= max_size)
            /\ Len(events') >= max_size =>
                 \E p \in Producers :
                     /\ Invoked(p)
                     /\ batch'[p] = events'
                     /\ Len(batch'[p]) = max_size \/ last_fail # <<>>
        /\ \A p \in Producers : Resumed(p) => events' = <<>> ]_vars

\* the first size-triggered flush has succeeded: the add_job that brought the
\* count to max_size has returned, max_size events are delivered and the
\* buffer is empty, with no monitor or direct flush involved
C2_Witness ==
    /\ delivered = 1..max_size
    /\ events = <<>>
    /\ \A p \in 1..max_size : pc[p] = "returned"
    /\ pc[Monitor] = "start"
    /\ \A f \in Flushers : pc[f] = "idle"

\* C3: when a task resumes from a sink call that raised on batch E, events
\* still starts with E, and the next sink call that returns was handed a
\* batch that starts with E, whoever started the flush.
C3_FailedBatchRetained ==
    [][ \A p \in Procs :
          /\ Failed(p) => IsPrefix(batch[p], events')
          /\ Resumed(p) /\ last_fail # <<>> => IsPrefix(last_fail, batch[p]) ]_vars

\* C4: when add_job resumes from a triggered sink call that raised, the
\* exception is its outcome, events is as it was and contains the event this
\* add_job appended, and last_event_time is the clock reading of that append.
C4_AddFailurePropagates ==
    [][ \A p \in Producers :
          Failed(p) =>
            /\ pc'[p] = "raised"
            /\ events' = events
            /\ Len(events') >= max_size
            /\ adding[p].id \in Range(events')
            /\ last_event_time' = adding[p].at ]_vars

C6_FlushJobs ==
    [][ /\ FlushCalled =>
            IF events = <<>>
              THEN /\ \A p \in Procs : ~Invoked(p)
                   /\ UNCHANGED <<events, last_event_time, locked, waiters, alive>>
              ELSE /\ Cardinality({p \in Procs : Invoked(p)}) = 1
                   /\ \E f \in Flushers : Invoked(f) /\ batch'[f] = events
                   /\ UNCHANGED <<events, last_event_time, locked, waiters, alive>>
        /\ \A f \in Flushers :
             InSink(f) /\ pc'[f] # pc[f] => ~Invoked(f) ]_vars

\* a direct flush_jobs call found the buffer empty and returned without
\* handing anything to the sink
C6_Witness ==
    /\ \E f \in Flushers : pc[f] = "returned"
    /\ delivered = {}
    /\ last_fail = <<>>

\* C7: with alive cleared the monitor starts at most one more sink
\* invocation; a monitor cycle that ends with alive cleared ends the monitor,
\* and an ended monitor stays ended and starts nothing.
C7_StopBounded ==
    /\ [](mon_after_stop <= 1)
    /\ [][ /\ ~alive /\ (MonitorChecked \/ Resumed(Monitor)) /\ ~Invoked(Monitor)
              => pc'[Monitor] = "stopped"
           /\ pc[Monitor] \in {"stopped", "raised"}
              => pc'[Monitor] = pc[Monitor] ]_vars

\* alive was cleared during a sleep, the monitor then flushed once and stopped
C7_Witness ==
    /\ ~alive
    /\ mon_after_stop = 1
    /\ pc[Monitor] = "stopped"
    /\ delivered # {}
    /\ \A f \in Flushers : pc[f] = "idle"

\* C8: every sink invocation in flight runs with the lock held, and at most
\* one is in flight.
C8_SinkUnderLock ==
    /\ \A p \in Procs : pc[p] = "sink" => locked
    /\ Cardinality({p \in Procs : pc[p] = "sink"}) <= 1

\* C9: while the monitor runs and the sink always returns, every accepted
\* event is eventually in a batch whose sink call returned.
C9_EventuallyDelivered ==
    \A e \in 1..NumAdds : [](n_accepted >= e => <>(e \in delivered))

\* an event was delivered by the timeout path, in a batch below max_size
C9_Witness ==
    /\ delivered # {}
    /\ Cardinality(delivered) < max_size
    /\ events = <<>>

\* C10: clearing alive leaves events, last_event_time and the lock alone;
\* with alive cleared add_job and flush_jobs are still accepted, add_job
\* still appends and flushes exactly when the count reaches max_size, and
\* flush_jobs still hands a non-empty buffer to the sink.
C10_StopOnlyMonitor ==
    /\ [][ /\ alive /\ ~alive' =>
                UNCHANGED <<events, last_event_time, locked, waiters>>
           /\ ~alive /\ Appended =>
                /\ events' = Append(events, n_accepted')
                /\ (Len(events') >= max_size) <=> (\E p \in Producers : Invoked(p))
           /\ ~alive /\ FlushCalled /\ events # <<>> =>
                \E f \in Flushers : Invoked(f) /\ batch'[f] = events ]_vars
    /\ [](~alive =>
            /\ \A p \in Producers :
                 pc[p] = "idle" /\ Turn(p, Producers) => ENABLED AddJobCall(p)
            /\ \A f \in Flushers :
                 pc[f] = "idle" /\ Turn(f, Flushers) => ENABLED FlushJobsCall(f))

\* after alive was cleared the monitor flushed event 1, and two more add_job
\* calls then filled the buffer and triggered a flush
C10_Witness ==
    /\ ~alive
    /\ mon_after_stop = 1
    /\ delivered = {1}
    /\ \A f \in Flushers : pc[f] = "idle"
    /\ \E p \in Producers : pc[p] = "sink" /\ Len(batch[p]) = max_size

\* no add_job, flush_jobs or monitor cycle is in progress
Quiet ==
    /\ \A p \in Producers \cup Flushers : pc[p] \in {"idle", "returned", "raised"}
    /\ pc[Monitor] \in {"start", "sleep", "stopped", "raised"}

\* C11: when an add_job call returns normally the buffer holds fewer than
\* max_size events; with no operation in progress the buffer holds max_size
\* events or more only if the last finished sink call raised, and a task
\* resuming from a sink call that raised leaves events as they are.
C11_BelowMaxSize ==
    /\ [][ /\ \A p \in Producers :
                pc[p] # "returned" /\ pc'[p] = "returned" => Len(events') < max_size
           /\ \A p \in Procs : Failed(p) => events' = events ]_vars
    /\ [](Quiet /\ Len(events) >= max_size => last_fail # <<>>)

\* add_job calls have returned normally, the later ones raised, and the
\* buffer rests above max_size with the failed batch in place
C11_Witness ==
    /\ Quiet
    /\ Len(events) > max_size
    /\ last_fail = events
    /\ pc[1] = "returned"


\* the tasks that take the lock
LockUsers == Producers \cup {Monitor}

\* C12: the lock is held exactly while an add_job or a monitor cycle is between
\* invoking the sink and resuming from it; a task that holds it is never queued
\* for it and invokes the sink in the step that took it; a task resuming from a
\* sink call that raised releases it; and every task queued for the lock gets
\* it, failed flushes or not.
C12_LockReleased ==
    /\ [](locked <=> \E p \in LockUsers : InSink(p))
    /\ [](\A p \in LockUsers : InSink(p) => p \notin Range(waiters))
    /\ [][ \A p \in LockUsers :
             /\ Invoked(p) => ~locked /\ locked'
             /\ Failed(p) => ~locked' ]_vars
    /\ \A p \in LockUsers : (pc[p] = "lock_wait") ~> (pc[p] # "lock_wait")

\* an add_job has raised out of its flush, the lock is free again and the next
\* queued add_job is about to get it
C12_Witness ==
    \E p, q \in Producers :
        /\ pc[p] = "raised"
        /\ pc[q] = "lock_wait"
        /\ LockGranted(q)


\* C13: last_event_time becomes the clock reading in every step in which an
\* add_job appends its event, no other step of the program writes it, and it
\* never decreases.
C13_LastEventTime ==
    [][ /\ Appended => last_event_time' = now
        /\ ~Appended => last_event_time' = last_event_time
        /\ last_event_time' >= last_event_time ]_vars

\* an event was appended after the clock had advanced, a flush has delivered
\* events and the clock has moved on since
C13_Witness ==
    /\ last_event_time > 0
    /\ now > last_event_time
    /\ delivered # {}
    /\ \E f \in Flushers : pc[f] = "returned"


\* the monitor coroutine has finished, by leaving its loop or by an exception
MonitorEnded == pc[Monitor] \in {"stopped", "raised"}

\* C14: whenever the monitor coroutine has finished, alive is cleared, also
\* after a flush of the monitor whose sink call raised; and once finished the
\* monitor takes no further step.
C14_StoppedOnlyWhenCleared ==
    /\ [](MonitorEnded => ~alive)
    /\ [][MonitorEnded => pc'[Monitor] = pc[Monitor]]_vars


\* C15: once alive is cleared the monitor coroutine finishes; until then it
\* begins no new sleep and does not prolong the one in flight; and a monitor
\* that finds alive cleared at its first loop test finishes in that step,
\* without sleeping or invoking the sink.
C15_MonitorTerminates ==
    /\ ~alive ~> MonitorEnded
    /\ [][ /\ ~alive /\ pc[Monitor] # "sleep" => pc'[Monitor] # "sleep"
           /\ ~alive /\ pc[Monitor] = "sleep" /\ pc'[Monitor] = "sleep"
                => wake_at' <= wake_at
           /\ ~alive /\ pc[Monitor] = "start" /\ pc'[Monitor] # "start"
                => pc'[Monitor] = "stopped" /\ wake_at' = wake_at ]_vars

\* alive was cleared before the monitor started: the monitor is stopped
\* without having slept, with an event still buffered
C15_Witness ==
    /\ pc[Monitor] = "stopped"
    /\ wake_at = 0
    /\ now < timeout
    /\ events # <<>>


\* C16: with a sink that raises on every call the buffer is at all times the
\* accepted events 1, 2, ... in append order, nothing dropped; every add_job
\* whose append leaves max_size events or more invokes the sink in that step,
\* it alone, with the whole buffer; and when the call has raised the add_job
\* raises without a second attempt.
C16_NothingDropped ==
    /\ [](events = Run(0, n_accepted))
    /\ [][ /\ Appended /\ Len(events') >= max_size
                => \E p \in Producers :
                      /\ Invoked(p)
                      /\ batch'[p] = events'
                      /\ \A q \in Procs \ {p} : ~Invoked(q)
           /\ \A p \in Producers : Failed(p) => pc'[p] = "raised" ]_vars

\* every add_job has been called, the later ones raised, and the buffer has
\* grown past max_size to hold every accepted event
C16_Witness ==
    /\ n_accepted = NumAdds
    /\ Len(events) > max_size
    /\ \A p \in Producers : pc[p] \in {"returned", "raised"}
    /\ pc[NumAdds] = "raised"


\* the events of the batches whose sink call has returned
Succeeded ==
    delivered \cup UNION {Range(batch[p]) : p \in {q \in Procs : pc[q] = "sink_ok"}}

\* C17: with direct flush_jobs calls interleaved, every accepted event is in
\* the buffer or in a batch whose sink call returned, and no flush resumes
\* from a returned sink call with events that an earlier one had delivered.
C17_NoLossNoDuplicate ==
    /\ [](\A e \in 1..n_accepted : e \in Range(events) \/ e \in Succeeded)
    /\ [][\A p \in Procs : Resumed(p) => Range(batch[p]) \cap delivered = {}]_vars


====
